---- MODULE Spec2Model ----
(***************************************************************************)
(* A model of bionic's locale subsystem, libc/bionic/locale.cpp: the       *)
(* process-wide UTF-8 flag, the locale handles, the per-thread locale      *)
(* slot and the lazily initialized lconv table.                            *)
(*                                                                         *)
(* Strings are sequences of one-character strings, so that strcmp and      *)
(* strstr are computed on the characters as the C library computes them.   *)
(* A locale_t is an integer: NULL, LC_GLOBAL_LOCALE, or the index of an    *)
(* object in `heap` (objects are never given the identity of an earlier    *)
(* one).  Callers are taken to keep the ownership rules of the handle API: *)
(* they pass only live handles to uselocale and duplocale, and free only   *)
(* live handles that no thread slot holds; freeing the sentinel, which the *)
(* callers routinely hold, is part of the model.                           *)
(***************************************************************************)
EXTENDS Integers, Sequences, FiniteSets, TLC

\* ------------------------------------------------------------ bounds
NumThreads == 2
MaxHandles == 2

Threads == 1..NumThreads

\* ------------------------------------------------------------ constants
\* The values are those of bionic's <locale.h>, <errno.h> and <limits.h>:
\* LC_GLOBAL_LOCALE is (locale_t)-1, the categories are LC_CTYPE = 0 to
\* LC_IDENTIFICATION = 12 with LC_ALL = 6 among them, and LC_ALL_MASK has the bit of
\* every category but LC_ALL.
NULL == 0
LC_GLOBAL_LOCALE == -1
EINVAL == 22
ENOENT == 2
LC_CTYPE == 0
LC_ALL == 6
LC_IDENTIFICATION == 12
LC_ALL_MASK == 8127
CHAR_MAX == 127

\* ------------------------------------------------------------ strings
Str_Empty == << >>
Str_C == <<"C">>
Str_POSIX == <<"P", "O", "S", "I", "X">>
Str_UTF8 == <<"U", "T", "F", "-", "8">>
Str_C_UTF8 == <<"C", ".">> \o Str_UTF8
Str_en_US_UTF8 == <<"e", "n", "_", "U", "S", ".">> \o Str_UTF8
Str_bogus == <<"b", "o", "g", "u", "s">>
Str_Dot == <<".">>
\* A char* that is the null pointer (no string has this element).
NULL_STR == <<"(null)">>

\* The strings the callers pass as locale_name: the five supported names, a
\* name with no "UTF-8" in it, a name that is only "UTF-8", and NULL.
LocaleNames ==
  {Str_Empty, Str_C, Str_POSIX, Str_C_UTF8, Str_en_US_UTF8, Str_bogus, Str_UTF8}
NameArgs == LocaleNames \cup {NULL_STR}

\* Category ids: every id of the legal range and one beyond each end.
Categories == (LC_CTYPE - 1)..(LC_IDENTIFICATION + 1)

\* 2^n
RECURSIVE Pow2(_)
Pow2(n) == IF n = 0 THEN 1 ELSE 2 * Pow2(n - 1)

\* Category masks: none, all, the bit of LC_ALL (no category), a bit past the
\* last category together with a legal one.
Masks == {0, LC_ALL_MASK, Pow2(LC_ALL), Pow2(LC_IDENTIFICATION + 1) + Pow2(LC_CTYPE)}

\* a & ~b, for a >= 0 and b >= 0
RECURSIVE AndNot(_, _)
AndNot(a, b) ==
  IF a = 0 THEN 0
  ELSE (IF a % 2 = 1 /\ b % 2 = 0 THEN 1 ELSE 0) + 2 * AndNot(a \div 2, b \div 2)

\* strcmp(a, b) == 0
strcmp_eq(a, b) == a = b

\* strstr(haystack, needle) != NULL
strstr_found(haystack, needle) ==
  \E i \in 1..(Len(haystack) + 1) :
    /\ i + Len(needle) - 1 <= Len(haystack)
    /\ SubSeq(haystack, i, i + Len(needle) - 1) = needle

\* ------------------------------------------------------------ validator
\* Variant: the names are matched by what they contain, as __is_utf8_locale does.
is_supported_locale_substr(locale_name) ==
  \/ Len(locale_name) = 0
  \/ strcmp_eq(locale_name, Str_C)
  \/ strcmp_eq(locale_name, Str_POSIX)
  \/ strstr_found(locale_name, Str_UTF8)

\* Variant: the alias "POSIX" of the "C" locale is left out.
is_supported_locale_no_posix(locale_name) ==
  \/ strcmp_eq(locale_name, Str_Empty)
  \/ strcmp_eq(locale_name, Str_C)
  \/ strcmp_eq(locale_name, Str_C_UTF8)
  \/ strcmp_eq(locale_name, Str_en_US_UTF8)

is_supported_locale(locale_name) ==
  \/ strcmp_eq(locale_name, Str_Empty)
  \/ strcmp_eq(locale_name, Str_C)
  \/ strcmp_eq(locale_name, Str_C_UTF8)
  \/ strcmp_eq(locale_name, Str_en_US_UTF8)
  \/ strcmp_eq(locale_name, Str_POSIX)

\* Variant: only the canonical UTF-8 name selects the UTF-8 personality.
is_utf8_locale_exact(locale_name) == strcmp_eq(locale_name, Str_C_UTF8)

is_utf8_locale(locale_name) ==
  Len(locale_name) = 0 \/ strstr_found(locale_name, Str_UTF8)

\* The width a locale_t object is given for a personality.
mb_width(is_utf8) == IF is_utf8 THEN 4 ELSE 1

\* The name setlocale returns for the flag (line 163).
canonical_name(is_utf8) == IF is_utf8 THEN Str_C_UTF8 ELSE Str_C

\* ------------------------------------------------------------ lconv
TextFields ==
  {"decimal_point", "thousands_sep", "grouping", "int_curr_symbol",
   "currency_symbol", "mon_decimal_point", "mon_thousands_sep", "mon_grouping",
   "positive_sign", "negative_sign"}
NotAvailableFields == TextFields \ {"decimal_point"}
NumFields ==
  {"int_frac_digits", "frac_digits", "p_cs_precedes", "p_sep_by_space",
   "n_cs_precedes", "n_sep_by_space", "p_sign_posn", "n_sign_posn",
   "int_p_cs_precedes", "int_p_sep_by_space", "int_n_cs_precedes",
   "int_n_sep_by_space", "int_p_sign_posn", "int_n_sign_posn"}

\* static lconv g_locale: zero-initialized storage
lconv_zero == [text |-> [f \in TextFields |-> NULL_STR], num |-> [f \in NumFields |-> 0]]

\* ------------------------------------------------------------ state
VARIABLES
  current_locale_is_utf8,  \* __bionic_current_locale_is_utf8
  heap,                    \* the __locale_t objects, by handle
  tls,                     \* __get_bionic_tls().locale of each thread
  g_locale_once,           \* the pthread_once_t of the table
  g_locale,                \* the lconv table
  init_runs,               \* how many times __locale_init was entered (a counter
                           \* beside the code, as a test double would keep)
  pc,                      \* where each thread is
  frame,                   \* the arguments and locals of a call in progress
  crashed,                 \* the process has died
  last                     \* the call that returned in the last step, if one did

vars ==
  <<current_locale_is_utf8, heap, tls, g_locale_once, g_locale, init_runs, pc, frame,
    crashed, last>>

NoFrame == [op |-> "none"]
NoReturn == [op |-> "none"]

Handles == 1..Len(heap)
LiveHandles == {h \in Handles : heap[h].live}
Installed == {tls[t] : t \in Threads}

Init ==
  /\ current_locale_is_utf8 = TRUE
  /\ heap = << >>
  /\ tls = [t \in Threads |-> NULL]
  /\ g_locale_once = "INIT"
  /\ g_locale = lconv_zero
  /\ init_runs = 0
  /\ pc = [t \in Threads |-> "idle"]
  /\ frame = [t \in Threads |-> NoFrame]
  /\ crashed = FALSE
  /\ last = NoReturn

Idle(t) == ~crashed /\ pc[t] = "idle"
At(t, p) == ~crashed /\ pc[t] = p

\* A call of thread t returns: the thread is idle again and `last` is the call.
Return(t, r) ==
  /\ pc' = [pc EXCEPT ![t] = "idle"]
  /\ frame' = [frame EXCEPT ![t] = NoFrame]
  /\ last' = r

\* Thread t goes on to p inside a call.
Goto(t, p, f) ==
  /\ pc' = [pc EXCEPT ![t] = p]
  /\ frame' = [frame EXCEPT ![t] = f]
  /\ last' = NoReturn

\* ------------------------------------------------------------ setlocale
\* Variant: only the upper end of the range is checked.
category_invalid_no_lower(category) == category > LC_IDENTIFICATION

\* Variant: the last category is refused.
category_invalid_off_by_one(category) == category < LC_CTYPE \/ category >= LC_IDENTIFICATION

\* line 148: is 'category' valid?
category_invalid(category) == category < LC_CTYPE \/ category > LC_IDENTIFICATION

\* Variant: an empty name is taken as a query, like NULL.
wants_set_nonempty(locale_name) == locale_name # NULL_STR /\ Len(locale_name) # 0

\* line 154: the caller wants to set the locale rather than just query
wants_set(locale_name) == locale_name # NULL_STR

\* Variant: a set of the default locale also rewrites the width of the live handles.
setlocale_live_link(t, category, locale_name) ==
  /\ Idle(t)
  /\ IF category_invalid(category)
     THEN /\ Return(t, [op |-> "setlocale", t |-> t, category |-> category,
                        locale_name |-> locale_name, ret |-> NULL_STR, errno |-> EINVAL])
          /\ UNCHANGED <<current_locale_is_utf8, heap>>
     ELSE IF wants_set(locale_name) /\ ~is_supported_locale(locale_name)
     THEN /\ Return(t, [op |-> "setlocale", t |-> t, category |-> category,
                        locale_name |-> locale_name, ret |-> NULL_STR, errno |-> ENOENT])
          /\ UNCHANGED <<current_locale_is_utf8, heap>>
     ELSE /\ current_locale_is_utf8' =
               IF wants_set(locale_name) THEN is_utf8_locale(locale_name)
               ELSE current_locale_is_utf8
          /\ heap' = [h \in DOMAIN heap |->
                        IF heap[h].live /\ wants_set(locale_name)
                        THEN [heap[h] EXCEPT !.mb_cur_max = mb_width(is_utf8_locale(locale_name))]
                        ELSE heap[h]]
          /\ Goto(t, "setlocale_163",
                  [op |-> "setlocale", category |-> category, locale_name |-> locale_name])
  /\ UNCHANGED <<tls, g_locale_once, g_locale, init_runs, crashed>>

\* lines 146-161: the checks and the write of the flag
setlocale(t, category, locale_name) ==
  /\ Idle(t)
  /\ IF category_invalid(category)
     THEN /\ Return(t, [op |-> "setlocale", t |-> t, category |-> category,
                        locale_name |-> locale_name, ret |-> NULL_STR, errno |-> EINVAL])
          /\ UNCHANGED current_locale_is_utf8
     ELSE IF wants_set(locale_name) /\ ~is_supported_locale(locale_name)
     THEN /\ Return(t, [op |-> "setlocale", t |-> t, category |-> category,
                        locale_name |-> locale_name, ret |-> NULL_STR, errno |-> ENOENT])
          /\ UNCHANGED current_locale_is_utf8
     ELSE /\ current_locale_is_utf8' =
               IF wants_set(locale_name) THEN is_utf8_locale(locale_name)
               ELSE current_locale_is_utf8
          /\ Goto(t, "setlocale_163",
                  [op |-> "setlocale", category |-> category, locale_name |-> locale_name])
  /\ UNCHANGED <<heap, tls, g_locale_once, g_locale, init_runs, crashed>>

\* Variant: a set returns the name of the personality of its own argument.
setlocale_163_own(t) ==
  /\ At(t, "setlocale_163")
  /\ Return(t, [op |-> "setlocale", t |-> t, category |-> frame[t].category,
                locale_name |-> frame[t].locale_name,
                ret |-> IF wants_set(frame[t].locale_name)
                        THEN canonical_name(is_utf8_locale(frame[t].locale_name))
                        ELSE canonical_name(current_locale_is_utf8),
                errno |-> 0])
  /\ UNCHANGED <<current_locale_is_utf8, heap, tls, g_locale_once, g_locale, init_runs,
                 crashed>>

\* line 163: the read of the flag and the return
setlocale_163(t) ==
  /\ At(t, "setlocale_163")
  /\ Return(t, [op |-> "setlocale", t |-> t, category |-> frame[t].category,
                locale_name |-> frame[t].locale_name,
                ret |-> canonical_name(current_locale_is_utf8), errno |-> 0])
  /\ UNCHANGED <<current_locale_is_utf8, heap, tls, g_locale_once, g_locale, init_runs,
                 crashed>>

\* ------------------------------------------------------------ handles
\* __locale_t(size_t mb_cur_max), lines 50-51
locale_t_new(mb_cur_max) == [live |-> TRUE, mb_cur_max |-> mb_cur_max]

\* Variant: the copy of the global locale is always the UTF-8 personality.
locale_t_copy_utf8(other) ==
  [live |-> TRUE,
   mb_cur_max |-> IF other = LC_GLOBAL_LOCALE THEN 4 ELSE heap[other].mb_cur_max]

\* __locale_t(const __locale_t* other), lines 53-59
locale_t_copy(other) ==
  [live |-> TRUE,
   mb_cur_max |-> IF other = LC_GLOBAL_LOCALE THEN mb_width(current_locale_is_utf8)
                  ELSE heap[other].mb_cur_max]

\* Variant: only the name is checked, not the mask.
newlocale_invalid_name_only(category_mask, locale_name) == locale_name = NULL_STR

\* line 133: are 'category_mask' and 'locale_name' valid?
newlocale_invalid(category_mask, locale_name) ==
  AndNot(category_mask, LC_ALL_MASK) # 0 \/ locale_name = NULL_STR

\* lines 131-144
newlocale(t, category_mask, locale_name, base) ==
  /\ Idle(t)
  /\ IF newlocale_invalid(category_mask, locale_name)
     THEN /\ Return(t, [op |-> "newlocale", t |-> t, category_mask |-> category_mask,
                        locale_name |-> locale_name, ret |-> NULL, errno |-> EINVAL])
          /\ UNCHANGED heap
     ELSE IF ~is_supported_locale(locale_name)
     THEN /\ Return(t, [op |-> "newlocale", t |-> t, category_mask |-> category_mask,
                        locale_name |-> locale_name, ret |-> NULL, errno |-> ENOENT])
          /\ UNCHANGED heap
     ELSE /\ Len(heap) < MaxHandles
          /\ heap' = Append(heap, locale_t_new(mb_width(is_utf8_locale(locale_name))))
          /\ Return(t, [op |-> "newlocale", t |-> t, category_mask |-> category_mask,
                        locale_name |-> locale_name, ret |-> Len(heap) + 1, errno |-> 0])
  /\ UNCHANGED <<current_locale_is_utf8, tls, g_locale_once, g_locale, init_runs, crashed>>

\* lines 123-125
duplocale(t, l) ==
  /\ Idle(t)
  /\ Len(heap) < MaxHandles
  /\ heap' = Append(heap, locale_t_copy(l))
  /\ Return(t, [op |-> "duplocale", t |-> t, l |-> l, ret |-> Len(heap) + 1])
  /\ UNCHANGED <<current_locale_is_utf8, tls, g_locale_once, g_locale, init_runs, crashed>>

\* lines 127-129, for NULL (delete of a null pointer does nothing) and for a live object
freelocale(t, l) ==
  /\ Idle(t)
  /\ heap' = IF l = NULL THEN heap
             ELSE [heap EXCEPT ![l] = [live |-> FALSE, mb_cur_max |-> 0]]
  /\ Return(t, [op |-> "freelocale", t |-> t, l |-> l])
  /\ UNCHANGED <<current_locale_is_utf8, tls, g_locale_once, g_locale, init_runs, crashed>>

\* lines 127-129, for LC_GLOBAL_LOCALE: `delete` of a pointer that no `new` returned is
\* undefined; the allocator either kills the process or returns.
freelocale_global(t, aborts) ==
  /\ Idle(t)
  /\ IF aborts
     THEN /\ crashed' = TRUE
          /\ last' = NoReturn
          /\ UNCHANGED <<pc, frame>>
     ELSE /\ Return(t, [op |-> "freelocale", t |-> t, l |-> LC_GLOBAL_LOCALE])
          /\ UNCHANGED crashed
  /\ UNCHANGED <<current_locale_is_utf8, heap, tls, g_locale_once, g_locale, init_runs>>

\* ------------------------------------------------------------ thread binding
\* Variant: the slot is returned as it is, an empty one as NULL.
uselocale_old_raw(t) == tls[t]

\* lines 167-173: what uselocale returns on thread t
uselocale_old(t) == IF tls[t] = NULL THEN LC_GLOBAL_LOCALE ELSE tls[t]

\* Variant: the slot is written whatever new_locale is.
uselocale_store_always(t, new_locale) == [tls EXCEPT ![t] = new_locale]

\* Variant: one slot for the whole process.
uselocale_store_shared(t, new_locale) ==
  IF new_locale # NULL THEN [u \in Threads |-> new_locale] ELSE tls

\* Variant: the sentinel, like NULL, is not stored.
uselocale_store_handles_only(t, new_locale) ==
  IF new_locale # NULL /\ new_locale # LC_GLOBAL_LOCALE THEN [tls EXCEPT ![t] = new_locale]
  ELSE tls

\* lines 175-177: the slot of thread t after uselocale(new_locale)
uselocale_store(t, new_locale) ==
  IF new_locale # NULL THEN [tls EXCEPT ![t] = new_locale] ELSE tls

\* lines 166-180
uselocale(t, new_locale) ==
  /\ Idle(t)
  /\ tls' = uselocale_store(t, new_locale)
  /\ Return(t, [op |-> "uselocale", t |-> t, new_locale |-> new_locale,
                ret |-> uselocale_old(t)])
  /\ UNCHANGED <<current_locale_is_utf8, heap, g_locale_once, g_locale, init_runs, crashed>>

\* line 65: locale_t l = uselocale(NULL)
ctype_get_mb_cur_max(t) ==
  /\ Idle(t)
  /\ Goto(t, "mb_cur_max_66", [op |-> "mb_cur_max", l |-> uselocale_old(t)])
  /\ UNCHANGED <<current_locale_is_utf8, heap, tls, g_locale_once, g_locale, init_runs,
                 crashed>>

\* Variant: the global locale is always the UTF-8 personality.
mb_cur_max_of_utf8(l) == IF l = LC_GLOBAL_LOCALE THEN 4 ELSE heap[l].mb_cur_max

\* lines 66-70: the width of l
mb_cur_max_of(l) ==
  IF l = LC_GLOBAL_LOCALE THEN mb_width(current_locale_is_utf8) ELSE heap[l].mb_cur_max

ctype_get_mb_cur_max_66(t) ==
  /\ At(t, "mb_cur_max_66")
  /\ Return(t, [op |-> "mb_cur_max", t |-> t, l |-> frame[t].l,
                ret |-> mb_cur_max_of(frame[t].l)])
  /\ UNCHANGED <<current_locale_is_utf8, heap, tls, g_locale_once, g_locale, init_runs,
                 crashed>>

\* ------------------------------------------------------------ localeconv
\* Variant: localeconv returns the table without the call of pthread_once.
localeconv_no_once(t) ==
  /\ Idle(t)
  /\ Goto(t, "localeconv_120", [op |-> "localeconv"])
  /\ UNCHANGED <<current_locale_is_utf8, heap, tls, g_locale_once, g_locale, init_runs,
                 crashed>>

\* line 118: localeconv is entered
localeconv(t) ==
  /\ Idle(t)
  /\ Goto(t, "localeconv_119", [op |-> "localeconv"])
  /\ UNCHANGED <<current_locale_is_utf8, heap, tls, g_locale_once, g_locale, init_runs,
                 crashed>>

\* pthread_once(&g_locale_once, __locale_init): the first caller runs the routine, a
\* caller that finds it running waits, a caller that finds it done goes on.
pthread_once(t) ==
  /\ At(t, "localeconv_119")
  /\ g_locale_once # "RUNNING"
  /\ IF g_locale_once = "INIT"
     THEN /\ g_locale_once' = "RUNNING"
          /\ init_runs' = init_runs + 1
          /\ Goto(t, "locale_init_77", frame[t])
     ELSE /\ Goto(t, "localeconv_120", frame[t])
          /\ UNCHANGED <<g_locale_once, init_runs>>
  /\ UNCHANGED <<current_locale_is_utf8, heap, tls, g_locale, crashed>>

\* Variant: the decimal point follows the default locale.
locale_init_77_by_locale(t) ==
  /\ At(t, "locale_init_77")
  /\ g_locale' = [g_locale EXCEPT !.text["decimal_point"] =
                    IF current_locale_is_utf8 THEN Str_Dot ELSE <<",">>]
  /\ Goto(t, "locale_init_80", frame[t])
  /\ UNCHANGED <<current_locale_is_utf8, heap, tls, g_locale_once, init_runs, crashed>>

\* line 77
locale_init_77(t) ==
  /\ At(t, "locale_init_77")
  /\ g_locale' = [g_locale EXCEPT !.text["decimal_point"] = Str_Dot]
  /\ Goto(t, "locale_init_80", frame[t])
  /\ UNCHANGED <<current_locale_is_utf8, heap, tls, g_locale_once, init_runs, crashed>>

\* lines 79-88
locale_init_80(t) ==
  /\ At(t, "locale_init_80")
  /\ g_locale' = [g_locale EXCEPT
                    !.text = [f \in TextFields |->
                                IF f \in NotAvailableFields THEN Str_Empty ELSE @[f]]]
  /\ Goto(t, "locale_init_90", frame[t])
  /\ UNCHANGED <<current_locale_is_utf8, heap, tls, g_locale_once, init_runs, crashed>>

\* lines 90-104, and pthread_once marking the routine done as it returns
locale_init_90(t) ==
  /\ At(t, "locale_init_90")
  /\ g_locale' = [g_locale EXCEPT !.num = [f \in NumFields |-> CHAR_MAX]]
  /\ g_locale_once' = "DONE"
  /\ Goto(t, "localeconv_120", frame[t])
  /\ UNCHANGED <<current_locale_is_utf8, heap, tls, init_runs, crashed>>

\* line 120: return &g_locale; the caller sees the table as it is now
localeconv_120(t) ==
  /\ At(t, "localeconv_120")
  /\ Return(t, [op |-> "localeconv", t |-> t, lconv |-> g_locale])
  /\ UNCHANGED <<current_locale_is_utf8, heap, tls, g_locale_once, g_locale, init_runs,
                 crashed>>

\* ------------------------------------------------------------ specifications
\* The locale_t values the callers hold and may pass.
UsableLocales == {LC_GLOBAL_LOCALE} \cup LiveHandles
FreeableLocales == {NULL} \cup (LiveHandles \ Installed)

\* A name of each personality, and NULL: what a caller passes that only wants the
\* default locale switched or read.
PersonalityNames == {Str_C, Str_C_UTF8, NULL_STR}

\* No other thread is inside a call.
Alone(t) == \A u \in Threads \ {t} : pc[u] = "idle"

\* The flag, the handles and the thread slots are disjoint from the lconv table and
\* its once-control (no function reads or writes both), and the slot of a thread is
\* read and written by that thread alone.  Spec is the whole API with the calls of the
\* threads in every order, one call returning before the next begins;
\* SetlocaleSpec and NewlocaleSpec give setlocale and newlocale every argument;
\* OnceSpec interleaves the steps of concurrent calls of localeconv, RaceSpec those of
\* concurrent calls of setlocale.

\* The whole API, call after call.
Next ==
  \/ \E t \in Threads, locale_name \in PersonalityNames :
       Alone(t) /\ setlocale(t, LC_ALL, locale_name)
  \/ \E t \in Threads : Alone(t) /\ setlocale_163(t)
  \/ \E t \in Threads, locale_name \in {Str_C, Str_C_UTF8} :
       Alone(t) /\ newlocale(t, LC_ALL_MASK, locale_name, NULL)
  \/ \E t \in Threads, l \in UsableLocales : Alone(t) /\ duplocale(t, l)
  \/ \E t \in Threads, l \in FreeableLocales : Alone(t) /\ freelocale(t, l)
  \/ \E t \in Threads, aborts \in BOOLEAN : Alone(t) /\ freelocale_global(t, aborts)
  \/ \E t \in Threads, new_locale \in {NULL} \cup UsableLocales :
       Alone(t) /\ uselocale(t, new_locale)
  \/ \E t \in Threads : Alone(t) /\ ctype_get_mb_cur_max(t)
  \/ \E t \in Threads : Alone(t) /\ ctype_get_mb_cur_max_66(t)
  \/ \E t \in Threads : Alone(t) /\ localeconv(t)
  \/ \E t \in Threads : Alone(t) /\ pthread_once(t)
  \/ \E t \in Threads : Alone(t) /\ locale_init_77(t)
  \/ \E t \in Threads : Alone(t) /\ locale_init_80(t)
  \/ \E t \in Threads : Alone(t) /\ locale_init_90(t)
  \/ \E t \in Threads : Alone(t) /\ localeconv_120(t)

Spec == Init /\ [][Next]_vars

\* setlocale with every argument.
SetlocaleNext ==
  \/ \E t \in Threads, category \in Categories, locale_name \in NameArgs :
       Alone(t) /\ setlocale(t, category, locale_name)
  \/ \E t \in Threads : Alone(t) /\ setlocale_163(t)
  \/ \E t \in Threads : Alone(t) /\ ctype_get_mb_cur_max(t)
  \/ \E t \in Threads : Alone(t) /\ ctype_get_mb_cur_max_66(t)

SetlocaleSpec == Init /\ [][SetlocaleNext]_vars

\* newlocale with every argument, in both states of the flag.
NewlocaleNext ==
  \/ \E t \in Threads, category_mask \in Masks, locale_name \in NameArgs,
        base \in {NULL} \cup UsableLocales :
       Alone(t) /\ newlocale(t, category_mask, locale_name, base)
  \/ \E t \in Threads, locale_name \in PersonalityNames :
       Alone(t) /\ setlocale(t, LC_ALL, locale_name)
  \/ \E t \in Threads : Alone(t) /\ setlocale_163(t)
  \/ \E t \in Threads, l \in FreeableLocales : Alone(t) /\ freelocale(t, l)

NewlocaleSpec == Init /\ [][NewlocaleNext]_vars

\* Concurrent calls of localeconv, among calls of setlocale.
OnceNext ==
  \/ \E t \in Threads : localeconv(t)
  \/ \E t \in Threads : pthread_once(t)
  \/ \E t \in Threads : locale_init_77(t)
  \/ \E t \in Threads : locale_init_80(t)
  \/ \E t \in Threads : locale_init_90(t)
  \/ \E t \in Threads : localeconv_120(t)
  \/ \E t \in Threads, locale_name \in PersonalityNames : setlocale(t, LC_ALL, locale_name)
  \/ \E t \in Threads : setlocale_163(t)

OnceSpec == Init /\ [][OnceNext]_vars

\* Concurrent calls of setlocale.  The flag is a plain bool, written at line 160 and
\* read at line 163 with no lock: a read that races with a write yields the value
\* before or after it, which is an interleaving of the two accesses.
RaceNext ==
  \/ \E t \in Threads, locale_name \in NameArgs : setlocale(t, LC_ALL, locale_name)
  \/ \E t \in Threads : setlocale_163(t)

RaceSpec == Init /\ [][RaceNext]_vars

\* ------------------------------------------------------------ claims
ValidCategory(category) == category \in LC_CTYPE..LC_IDENTIFICATION
SupportedNames == {Str_Empty, Str_C, Str_POSIX, Str_C_UTF8, Str_en_US_UTF8}
Utf8Names == {Str_Empty, Str_C_UTF8, Str_en_US_UTF8}
NameOfFlag == IF current_locale_is_utf8 THEN Str_C_UTF8 ELSE Str_C

\* A call setlocale(category, name) with a valid category has returned in this state.
SetlocaleReturned(rec) == rec.op = "setlocale" /\ ValidCategory(rec.category)

\* Thread t passes the checks of setlocale in this step (lines 146-161).
SetlocaleAccepts(t) == pc[t] = "idle" /\ pc'[t] = "setlocale_163"

C1_SetReturns ==
  SetlocaleReturned(last) /\ last.locale_name \in SupportedNames =>
    /\ current_locale_is_utf8 = (last.locale_name \in Utf8Names)
    /\ last.locale_name \in {Str_C_UTF8, Str_en_US_UTF8} => last.ret = Str_C_UTF8
    /\ last.locale_name \in {Str_C, Str_POSIX} => last.ret = Str_C
    /\ last.ret = NameOfFlag
    /\ last.errno = 0

C1_QueryReturns ==
  SetlocaleReturned(last) /\ last.locale_name = NULL_STR =>
    last.ret = NameOfFlag /\ last.errno = 0

C1_FlagKept ==
  current_locale_is_utf8' # current_locale_is_utf8 =>
    \E t \in Threads :
      SetlocaleAccepts(t) /\ frame'[t].locale_name \in SupportedNames

\* C1: the process starts with the UTF-8 flag set; a setlocale with a valid category
\* and a supported non-null name leaves the flag at is_utf8(name) and returns the
\* canonical name of that state ("C.UTF-8" for "C.UTF-8" and "en_US.UTF-8", "C" for
\* "C" and "POSIX"); a query setlocale(category, NULL) returns the canonical name of
\* the flag, and the flag changes in no step but a successful set, so every later
\* query returns the same name until the next successful set.
C1_SetThenQuery ==
  /\ current_locale_is_utf8 = TRUE
  /\ [](C1_SetReturns /\ C1_QueryReturns)
  /\ [][C1_FlagKept]_vars

\* A set to "POSIX" has returned "C" in a process that started as UTF-8.
C1_Witness ==
  /\ SetlocaleReturned(last)
  /\ last.locale_name = Str_POSIX
  /\ last.ret = Str_C
  /\ ~current_locale_is_utf8

\* C2: setlocale with a valid category and a name outside the supported set returns
\* null with ENOENT in the step in which it was called, and that step leaves the flag
\* as it was, so a query right after returns the name a query right before returned.
C2_UnsupportedName ==
  [][SetlocaleReturned(last') /\ last'.locale_name \notin SupportedNames \cup {NULL_STR} =>
       /\ last'.ret = NULL_STR
       /\ last'.errno = ENOENT
       /\ current_locale_is_utf8' = current_locale_is_utf8
       /\ pc[last'.t] = "idle"]_vars

\* The name "UTF-8" was refused while the default was the non-UTF-8 personality.
C2_Witness ==
  /\ SetlocaleReturned(last)
  /\ last.locale_name = Str_UTF8
  /\ last.errno = ENOENT
  /\ ~current_locale_is_utf8

\* C3 as stated: setlocale with an empty name returns the current canonical name
\* and leaves the flag as it was.
C3_EmptyNameIsQuery ==
  [][/\ \A t \in Threads :
          SetlocaleAccepts(t) /\ frame'[t].locale_name = Str_Empty =>
            current_locale_is_utf8' = current_locale_is_utf8
     /\ SetlocaleReturned(last') /\ last'.locale_name = Str_Empty =>
          last'.ret = (IF current_locale_is_utf8 THEN Str_C_UTF8 ELSE Str_C)]_vars

\* C3, amended: the pure query form is the NULL name: it returns the current
\* canonical name and leaves the flag as it was, in the non-UTF-8 personality too;
\* the empty name selects the UTF-8 personality and returns "C.UTF-8".
C3_NullNameIsQuery ==
  [][/\ \A t \in Threads :
          /\ SetlocaleAccepts(t) /\ frame'[t].locale_name = NULL_STR =>
               current_locale_is_utf8' = current_locale_is_utf8
          /\ SetlocaleAccepts(t) /\ frame'[t].locale_name = Str_Empty =>
               current_locale_is_utf8' = TRUE
     /\ SetlocaleReturned(last') /\ last'.locale_name = NULL_STR =>
          /\ last'.ret = (IF current_locale_is_utf8 THEN Str_C_UTF8 ELSE Str_C)
          /\ current_locale_is_utf8' = current_locale_is_utf8
     /\ SetlocaleReturned(last') /\ last'.locale_name = Str_Empty =>
          last'.ret = Str_C_UTF8 /\ current_locale_is_utf8']_vars

\* A query by NULL has returned "C": the default is the non-UTF-8 personality and
\* stays so.
C3_Witness ==
  /\ SetlocaleReturned(last)
  /\ last.locale_name = NULL_STR
  /\ last.ret = Str_C
  /\ ~current_locale_is_utf8

RealHandle(l) == l \notin {NULL, LC_GLOBAL_LOCALE}
WidthOfFlag == IF current_locale_is_utf8 THEN 4 ELSE 1

\* C4: duplocale(LC_GLOBAL_LOCALE) returns a new live handle whose width is 4 if the
\* flag is set when it is called and 1 otherwise, and no step (a setlocale among
\* them) changes the width of a handle that stays live.
C4_DupGlobalSnapshot ==
  [][/\ last'.op = "duplocale" /\ last'.l = LC_GLOBAL_LOCALE =>
          /\ last'.ret \notin 1..Len(heap)
          /\ last'.ret \in 1..Len(heap')
          /\ heap'[last'.ret].live
          /\ heap'[last'.ret].mb_cur_max = WidthOfFlag
     /\ \A h \in 1..Len(heap) :
          heap[h].live /\ heap'[h].live => heap'[h].mb_cur_max = heap[h].mb_cur_max]_vars

\* The global locale was duplicated while the default was the non-UTF-8 personality.
C4_Witness ==
  /\ last.op = "duplocale"
  /\ last.l = LC_GLOBAL_LOCALE
  /\ heap[last.ret].mb_cur_max = 1
  /\ ~current_locale_is_utf8

\* C5: __ctype_get_mb_cur_max returns 1 or 4: with an empty slot or the sentinel in
\* it, 4 if the flag is set now and 1 otherwise, whichever thread set the flag; with a
\* live handle in the slot, the width stored in the handle.
C5_MbCurMax ==
  last.op = "mb_cur_max" =>
    /\ last.ret \in {1, 4}
    /\ tls[last.t] \in {NULL, LC_GLOBAL_LOCALE} => last.ret = WidthOfFlag
    /\ RealHandle(tls[last.t]) =>
         heap[tls[last.t]].live /\ last.ret = heap[tls[last.t]].mb_cur_max

\* A thread bound to a handle of width 1 got 1 while the default is UTF-8, and
\* another thread has an empty slot.
C5_Witness ==
  /\ last.op = "mb_cur_max"
  /\ RealHandle(tls[last.t])
  /\ last.ret = 1
  /\ current_locale_is_utf8
  /\ \E u \in Threads : tls[u] = NULL

\* C6: uselocale(new_value) returns what the slot of the calling thread held before
\* the call, an empty slot as the sentinel, and leaves new_value in the slot unless
\* it is NULL; the slot changes in no other step of the thread.  So uselocale(x),
\* uselocale(y), uselocale(NULL) return, second and third, x and y.
C6_UselocaleReturnsPrevious ==
  [][/\ last'.op = "uselocale" =>
          /\ last'.ret = (IF tls[last'.t] = NULL THEN LC_GLOBAL_LOCALE ELSE tls[last'.t])
          /\ tls'[last'.t] = (IF last'.new_locale = NULL THEN tls[last'.t]
                              ELSE last'.new_locale)
     /\ \A t \in Threads :
          tls'[t] # tls[t] => last'.op = "uselocale" /\ last'.t = t]_vars

\* uselocale(y) has returned x, for two different handles x and y.
C6_Witness ==
  /\ last.op = "uselocale"
  /\ RealHandle(last.ret)
  /\ RealHandle(last.new_locale)
  /\ last.ret # last.new_locale
  /\ tls[last.t] = last.new_locale

\* C7: uselocale(NULL) changes nothing: not the slot of the calling thread (an
\* installed override stays), not the slot of another thread, not the flag, not a
\* handle, not the lconv table.
C7_UselocaleNullIsQuery ==
  [][last'.op = "uselocale" /\ last'.new_locale = NULL =>
       /\ tls' = tls
       /\ current_locale_is_utf8' = current_locale_is_utf8
       /\ heap' = heap
       /\ g_locale' = g_locale
       /\ g_locale_once' = g_locale_once]_vars

\* uselocale(NULL) has returned the handle the thread had installed, and the handle
\* is still installed.
C7_Witness ==
  /\ last.op = "uselocale"
  /\ last.new_locale = NULL
  /\ RealHandle(last.ret)
  /\ tls[last.t] = last.ret

\* C8: the slots start empty; the slot of a thread changes only in a uselocale of
\* that thread with a non-null argument, which becomes the slot; and uselocale(NULL)
\* returns the sentinel for an empty slot and the installed value otherwise, whatever
\* the other threads have called.
C8_SlotsIsolated ==
  /\ \A t \in Threads : tls[t] = NULL
  /\ [][/\ \A u \in Threads :
             tls'[u] # tls[u] =>
               /\ last'.op = "uselocale"
               /\ last'.t = u
               /\ last'.new_locale # NULL
               /\ tls'[u] = last'.new_locale
        /\ last'.op = "uselocale" /\ last'.new_locale = NULL =>
             IF tls[last'.t] = NULL THEN last'.ret = LC_GLOBAL_LOCALE
             ELSE last'.ret = tls[last'.t]]_vars

\* A thread that never installed a locale gets the sentinel while another thread
\* holds a handle and the table has been initialized.
C8_Witness ==
  /\ last.op = "uselocale"
  /\ last.new_locale = NULL
  /\ tls[last.t] = NULL
  /\ last.ret = LC_GLOBAL_LOCALE
  /\ \E u \in Threads : RealHandle(tls[u])
  /\ g_locale_once = "DONE"

\* C9: __locale_init is entered at most once, and a call of localeconv returns only
\* when the initialization is complete: the caller sees decimal_point ".", the other
\* textual fields "" and the numeric fields CHAR_MAX.
C9_InitOnce ==
  /\ init_runs <= 1
  /\ \A t \in Threads : pc[t] = "localeconv_120" => g_locale_once = "DONE"
  /\ last.op = "localeconv" =>
       /\ g_locale_once = "DONE"
       /\ last.lconv.text["decimal_point"] = <<".">>
       /\ \A f \in TextFields \ {"decimal_point"} : last.lconv.text[f] = << >>
       /\ \A f \in NumFields : last.lconv.num[f] = 127

\* A call of localeconv has returned while another call, begun before the table was
\* initialized, is still to return.
C9_Witness ==
  /\ last.op = "localeconv"
  /\ init_runs = 1
  /\ \E u \in Threads : pc[u] = "localeconv_120"

\* C10: newlocale with a legal mask and a non-null name succeeds exactly for the
\* names "", "C", "POSIX", "C.UTF-8" and "en_US.UTF-8" and fails with ENOENT for the
\* others; the handle has width 4 for "", "C.UTF-8" and "en_US.UTF-8" and width 1 for
\* "C" and "POSIX", whatever the base argument and the flag are.
C10_Newlocale ==
  last.op = "newlocale" /\ AndNot(last.category_mask, LC_ALL_MASK) = 0
    /\ last.locale_name # NULL_STR =>
      IF last.locale_name \in SupportedNames
      THEN /\ RealHandle(last.ret)
           /\ last.errno = 0
           /\ heap[last.ret].live
           /\ heap[last.ret].mb_cur_max = (IF last.locale_name \in Utf8Names THEN 4 ELSE 1)
      ELSE last.ret = NULL /\ last.errno = ENOENT

\* newlocale with the empty name has made a handle of width 4 while the default is
\* the non-UTF-8 personality.
C10_Witness ==
  /\ last.op = "newlocale"
  /\ last.locale_name = Str_Empty
  /\ RealHandle(last.ret)
  /\ heap[last.ret].mb_cur_max = 4
  /\ ~current_locale_is_utf8

\* C11: newlocale with a mask that has a bit outside the legal category set (the bit
\* of LC_ALL, or a bit past LC_IDENTIFICATION) returns null with EINVAL in the step in
\* which it is called and creates no handle, whether the name is supported,
\* unsupported or NULL; so does newlocale with a legal mask and a NULL name.
C11_NewlocaleInvalid ==
  [][/\ last'.op = "newlocale" =>
          LET m == last'.category_mask
              illegal == \E b \in {LC_ALL} \cup (LC_IDENTIFICATION + 1)..(LC_IDENTIFICATION + 3) :
                           (m \div Pow2(b)) % 2 = 1
          IN  illegal \/ last'.locale_name = NULL_STR =>
                /\ last'.ret = NULL
                /\ last'.errno = EINVAL
                /\ heap' = heap]_vars

\* A mask with the bit of LC_ALL was refused with EINVAL though the name is not
\* supported.
C11_Witness ==
  /\ last.op = "newlocale"
  /\ last.category_mask = Pow2(LC_ALL)
  /\ last.locale_name = Str_bogus
  /\ last.errno = EINVAL
  /\ last.ret = NULL

\* C12: setlocale with a category below LC_CTYPE or above LC_IDENTIFICATION returns
\* null with EINVAL in the step in which it is called and leaves the flag as it was,
\* whether the name is NULL, supported or unsupported (never ENOENT).
C12_BadCategory ==
  [][last'.op = "setlocale" /\ (last'.category < 0 \/ last'.category > 12) =>
       /\ last'.ret = NULL_STR
       /\ last'.errno = EINVAL
       /\ current_locale_is_utf8' = current_locale_is_utf8
       /\ pc[last'.t] = "idle"]_vars

\* A category below the range was refused with EINVAL though the name is not
\* supported, in the non-UTF-8 personality.
C12_Witness ==
  /\ last.op = "setlocale"
  /\ last.category = LC_CTYPE - 1
  /\ last.locale_name = Str_bogus
  /\ last.errno = EINVAL
  /\ ~current_locale_is_utf8

\* C13: freelocale called with the global-locale sentinel does not crash: the process
\* is alive after it, in every reachable state.
C13_FreeSentinelNoCrash == ~crashed

\* C14: once the table is initialized no step changes it, and whatever calls of
\* setlocale, uselocale, newlocale, duplocale, freelocale and localeconv came before,
\* localeconv returns the record with decimal_point ".", every other textual field ""
\* and every numeric field CHAR_MAX.
C14_TableFixed ==
  /\ [](last.op = "localeconv" =>
          /\ last.lconv = g_locale
          /\ g_locale.text = [f \in TextFields |-> IF f = "decimal_point" THEN <<".">> ELSE << >>]
          /\ g_locale.num = [f \in NumFields |-> 127])
  /\ [][g_locale_once = "DONE" => g_locale' = g_locale /\ g_locale_once' = "DONE"]_vars

\* localeconv has returned in the non-UTF-8 personality, after a handle was freed
\* and while a thread holds a handle.
C14_Witness ==
  /\ last.op = "localeconv"
  /\ ~current_locale_is_utf8
  /\ \E h \in 1..Len(heap) : ~heap[h].live
  /\ \E t \in Threads : RealHandle(tls[t])

\* C15: the width of a live handle is 1 or 4 and no step of any thread changes it: a
\* handle stops being live only in a freelocale of it, and while it is live its width
\* is what it was; so a thread bound to a handle gets from the width query the width
\* the handle had before the query, however the default locale was changed.
C15_WidthImmutable ==
  [][/\ \A h \in 1..Len(heap) :
          heap[h].live =>
            /\ heap[h].mb_cur_max \in {1, 4}
            /\ h \in 1..Len(heap')
            /\ IF heap'[h].live THEN heap'[h].mb_cur_max = heap[h].mb_cur_max
               ELSE last'.op = "freelocale" /\ last'.l = h
     /\ \A t \in Threads :
          last'.op = "mb_cur_max" /\ last'.t = t /\ RealHandle(tls[t]) =>
            last'.ret = heap[tls[t]].mb_cur_max /\ tls'[t] = tls[t]]_vars

\* A thread bound to a handle of width 4 got 4 in the non-UTF-8 personality, after
\* another handle was freed.
C15_Witness ==
  /\ last.op = "mb_cur_max"
  /\ RealHandle(tls[last.t])
  /\ last.ret = 4
  /\ ~current_locale_is_utf8
  /\ \E h \in 1..Len(heap) : ~heap[h].live

\* C16: uselocale(LC_GLOBAL_LOCALE) leaves no handle in the slot of the calling
\* thread, also when the slot held one; and a thread whose slot holds the sentinel
\* observes what a thread with a never-set slot observes: uselocale returns the
\* sentinel to it and the width query returns the width of the flag as it is now.
C16_SentinelRestoresDefault ==
  [][/\ last'.op = "uselocale" /\ last'.new_locale = LC_GLOBAL_LOCALE =>
          tls'[last'.t] \in {NULL, LC_GLOBAL_LOCALE}
     /\ last'.op = "uselocale" /\ tls[last'.t] \in {NULL, LC_GLOBAL_LOCALE} =>
          last'.ret = LC_GLOBAL_LOCALE
     /\ last'.op = "mb_cur_max" /\ tls[last'.t] \in {NULL, LC_GLOBAL_LOCALE} =>
          last'.ret = (IF current_locale_is_utf8 THEN 4 ELSE 1)
     /\ \A t \in Threads :
          tls[t] = LC_GLOBAL_LOCALE /\ tls'[t] # tls[t] =>
            last'.op = "uselocale" /\ last'.t = t /\ RealHandle(last'.new_locale)]_vars

\* A thread that held a handle has installed the sentinel.
C16_Witness ==
  /\ last.op = "uselocale"
  /\ last.new_locale = LC_GLOBAL_LOCALE
  /\ RealHandle(last.ret)

\* C17 as stated: under every interleaving of concurrent calls, a setlocale with a
\* valid category and a supported non-null name returns the canonical name of the
\* personality its own name selects.
C17_ReturnsOwnName ==
  SetlocaleReturned(last) /\ last.locale_name \in SupportedNames =>
    last.ret = (IF last.locale_name \in Utf8Names THEN Str_C_UTF8 ELSE Str_C)

\* C17, amended: the write at line 160 sets the flag to the personality of the call's
\* name, the flag changes in no other step, and the call returns the canonical name
\* of the flag as it is at its read at line 163: the personality of the name of the
\* last call of any thread that wrote before that read, its own if no write of
\* another thread came between its write and its read.
C17_ReturnsFlagAtRead ==
  [][/\ \A t \in Threads :
          SetlocaleAccepts(t) /\ frame'[t].locale_name \in SupportedNames =>
            current_locale_is_utf8' = (frame'[t].locale_name \in Utf8Names)
     /\ current_locale_is_utf8' # current_locale_is_utf8 =>
          \E t \in Threads :
            SetlocaleAccepts(t) /\ frame'[t].locale_name \in SupportedNames
     /\ SetlocaleReturned(last') /\ last'.locale_name \in SupportedNames =>
          /\ pc[last'.t] = "setlocale_163"
          /\ last'.ret = (IF current_locale_is_utf8 THEN Str_C_UTF8 ELSE Str_C)]_vars

\* A set to "C" has returned "C.UTF-8", the personality another thread selected.
C17_Witness ==
  /\ SetlocaleReturned(last)
  /\ last.locale_name = Str_C
  /\ last.ret = Str_C_UTF8

\* C18: for every category id from LC_CTYPE to LC_IDENTIFICATION the outcome of
\* setlocale is the same function of the name and of the flag before the call, with
\* no part played by the category: an unsupported name returns null with ENOENT and
\* keeps the flag, NULL returns the name of the flag and keeps it, and a supported
\* name sets the one flag to "the name is empty or contains UTF-8" and returns its
\* canonical name.
C18_CategoryBlind ==
  [][/\ \A t \in Threads :
          SetlocaleAccepts(t) /\ frame'[t].category \in 0..12 =>
            /\ frame'[t].locale_name \in SupportedNames \cup {NULL_STR}
            /\ current_locale_is_utf8' =
                 IF frame'[t].locale_name = NULL_STR THEN current_locale_is_utf8
                 ELSE frame'[t].locale_name \in Utf8Names
     /\ last'.op = "setlocale" /\ last'.category \in 0..12 =>
          /\ current_locale_is_utf8' = current_locale_is_utf8
          /\ IF last'.locale_name \in SupportedNames \cup {NULL_STR}
             THEN /\ pc[last'.t] = "setlocale_163"
                  /\ last'.ret = (IF current_locale_is_utf8 THEN Str_C_UTF8 ELSE Str_C)
                  /\ last'.errno = 0
             ELSE /\ pc[last'.t] = "idle"
                  /\ last'.ret = NULL_STR
                  /\ last'.errno = ENOENT]_vars

\* A set with the last category id has selected the UTF-8 personality.
C18_Witness ==
  /\ last.op = "setlocale"
  /\ last.category = LC_IDENTIFICATION
  /\ last.locale_name = Str_en_US_UTF8
  /\ last.ret = Str_C_UTF8
  /\ last.errno = 0
====
